---- MODULE Spec2Model ----
(***************************************************************************)
(* Model of the AviSynth+ C API dynamic loader (avs_c_api_loader.cpp):     *)
(* the singleton avisynth_c_api_loader::instance_, the process-wide        *)
(* reference count ref_count_, the global accessor g_avs_api, and the      *)
(* host library the loader opens through the platform shim.                *)
(***************************************************************************)
EXTENDS Integers, Sequences, FiniteSets, TLC

(* ------------------------------ bounds --------------------------------- *)
\* number of get_api calls made in one behaviour
MaxCalls == 3

\* number of get_api calls started in one interleaved behaviour
MaxConcCalls == 3

(* --------------------------- pointer values ---------------------------- *)
NULL == "nullptr"
\* the handle avs_open_library returns for the installed library
LIB == "libavisynth"
\* &instance_.api_pointers_, the one table every caller is handed
TABLE == "&instance_.api_pointers_"

(* ------------------------- the function table -------------------------- *)
\* the master list of entry points that avs_c_api_functions.inc expands
KnownNames ==
    {"avs_check_version", "avs_at_exit", "avs_get_env_property",
     "avs_get_frame", "avs_release_clip"}

\* avisynth_c_api_pointers{} : every slot null
ZeroTable == [n \in KnownNames |-> NULL]

\* AVS_ScriptEnvironment* values the host hands to plugins
Envs == {1, 2}

(* ------------------------------ inputs --------------------------------- *)
ReqMajors == {10, 11}
ReqBugfixes == {0, 1}
ReqNameLists ==
    { <<>>,
      <<"avs_get_frame", "avs_release_clip">>,
      <<"avs_release_clip", "avs_totally_made_up">> }

\* the threads the host runs plugin initialisation and teardown on
Threads == {1, 2}
\* what the interleaved callers ask for
ConcNameLists == { <<"avs_get_frame", "avs_release_clip">> }
ConcBugfixes == {0}

(* ------------------------- the host library ---------------------------- *)
\* what the installed library exports
ExportSets ==
    { KnownNames,
      KnownNames \ {"avs_get_env_property"},
      KnownNames \ {"avs_at_exit"},
      KnownNames \ {"avs_release_clip"} }

Hosts ==
    { h \in [present : BOOLEAN, exports : ExportSets \cup {{}},
             major : {9, 10, 11}, bugfix : {0, 1}] :
        /\ h.present => h.exports # {}
        /\ ~h.present => (h.exports = {} /\ h.major = 9 /\ h.bugfix = 0) }

\* dlopen / LoadLibraryW of the platform file name
avs_open_library(h) == IF h.present THEN LIB ELSE NULL

\* dlsym / GetProcAddress: the symbol's address (its name) or null
avs_get_proc_address(h, handle, name) ==
    IF handle # NULL /\ name \in h.exports THEN name ELSE NULL

\* host: avs_get_env_property(env, AVS_AEP_INTERFACE_VERSION)
HostInterfaceVersion(h, env) == h.major
\* host: avs_get_env_property(env, AVS_AEP_INTERFACE_BUGFIX)
HostInterfaceBugfix(h, env) == h.bugfix
\* host: avs_check_version(env, version) returns 0 iff the host interface
\* is at least version
avs_check_version(h, env, version) == IF h.major >= version THEN 0 ELSE 1

(* ------------------------------ messages ------------------------------- *)
\* last_error_message_: a format string, the %s argument and the %d arguments
Msg(text, name, nums) == [text |-> text, name |-> name, nums |-> nums]
EmptyMsg == Msg("", "", <<>>)
FallbackMsg == Msg("Unknown Avisynth C API loading error.", "", <<>>)

VARIABLES
    host,               \* the installed host library (fixed per process)
    instance_,          \* avisynth_c_api_loader::instance_
    ref_count_,         \* avisynth_c_api_loader::ref_count_
    g_avs_api,          \* the global accessor
    at_exit,            \* host: callbacks registered per env, not yet invoked
    last,               \* the last call made: inputs, result, state before
    calls,              \* get_api calls made
    successes,          \* get_api calls that returned non-null
    teardowns,          \* teardown callbacks the host has invoked
    failed,             \* some get_api call returned null
    allSat,             \* every get_api call so far asked for what the host has
    okReqs,             \* requirements of the calls that succeeded since the
                        \* library was last closed
    thr,                \* per thread: where it is inside get_api or
                        \* cleanup_callback, and the call's arguments
    conc                \* totals: loads completed, teardown callbacks that
                        \* observed a count of 1, closes they performed,
                        \* successful avs_open_library calls not yet
                        \* matched by an avs_close_library (held);
                        \* and the happens-before bookkeeping of the
                        \* accesses to ref_count_ (miss, covered)

vars == <<host, instance_, ref_count_, g_avs_api, at_exit, last, calls,
          successes, teardowns, failed, allSat, okReqs, thr, conc>>

\* a default-constructed avisynth_c_api_loader
NewInstance ==
    [library_handle_ |-> NULL, api_pointers_ |-> ZeroTable,
     last_error_message_ |-> EmptyMsg, initialized_ |-> FALSE]

\* the process state the handlers read and write, with the log of the
\* shim calls and of the calls into the host's version functions
World ==
    [instance_ |-> instance_, ref_count_ |-> ref_count_,
     g_avs_api |-> g_avs_api, at_exit |-> at_exit,
     opens |-> 0, closes |-> 0, resolves |-> 0, asked |-> <<>>]

(* ------------------------- avs_c_api_loader.cpp ------------------------ *)
SetError(w, m) == [w EXCEPT !.instance_.last_error_message_ = m]

\* load_single_function failing for every symbol it does not find
load_single_function_allRequired(w, h, name, required) ==
    LET addr == avs_get_proc_address(h, w.instance_.library_handle_, name)
        w1 == [w EXCEPT !.resolves = @ + 1,
                        !.instance_.api_pointers_[name] = addr]
    IN  IF addr # NULL
        THEN [w |-> w1, ok |-> TRUE]
        ELSE [w |-> SetError(w1,
                      Msg("Failed to load required function: ", name, <<>>)),
              ok |-> FALSE]

\* load_single_function(name, ptr_member, required)
load_single_function(w, h, name, required) ==
    LET addr == avs_get_proc_address(h, w.instance_.library_handle_, name)
        w1 == [w EXCEPT !.resolves = @ + 1,
                        !.instance_.api_pointers_[name] = addr]
    IN  IF addr # NULL
        THEN [w |-> w1, ok |-> TRUE]
        ELSE IF required
             THEN [w |-> SetError(w1,
                           Msg("Failed to load required function: ", name, <<>>)),
                   ok |-> FALSE]
             ELSE [w |-> w1, ok |-> TRUE]

\* unload_library() leaving one slot of the table set
unload_library_keepSlot(w) ==
    IF w.instance_.library_handle_ # NULL
    THEN [w EXCEPT !.closes = @ + 1,
                   !.instance_.library_handle_ = NULL,
                   !.instance_.api_pointers_ =
                       [ZeroTable EXCEPT !["avs_get_frame"] =
                           w.instance_.api_pointers_["avs_get_frame"]],
                   !.instance_.initialized_ = FALSE,
                   !.g_avs_api = NULL]
    ELSE w

\* unload_library() forgetting to reset the table
unload_library_keepTable(w) ==
    IF w.instance_.library_handle_ # NULL
    THEN [w EXCEPT !.closes = @ + 1,
                   !.instance_.library_handle_ = NULL,
                   !.instance_.initialized_ = FALSE,
                   !.g_avs_api = NULL]
    ELSE w

\* unload_library() leaving initialized_ set
unload_library_keepFlag(w) ==
    IF w.instance_.library_handle_ # NULL
    THEN [w EXCEPT !.closes = @ + 1,
                   !.instance_.library_handle_ = NULL,
                   !.instance_.api_pointers_ = ZeroTable,
                   !.g_avs_api = NULL]
    ELSE w

\* unload_library() leaving the global accessor pointing at the table
unload_library_keepAccessor(w) ==
    IF w.instance_.library_handle_ # NULL
    THEN [w EXCEPT !.closes = @ + 1,
                   !.instance_.library_handle_ = NULL,
                   !.instance_.api_pointers_ = ZeroTable,
                   !.instance_.initialized_ = FALSE]
    ELSE w

\* unload_library()
unload_library(w) ==
    IF w.instance_.library_handle_ # NULL
    THEN [w EXCEPT !.closes = @ + 1,
                   !.instance_.library_handle_ = NULL,
                   !.instance_.api_pointers_ = ZeroTable,
                   !.instance_.initialized_ = FALSE,
                   !.g_avs_api = NULL]
    ELSE w

\* the version lambda of load_functions refusing a nonzero required bugfix
\* in the fallback
load_version_check_fallbackBugfix(w, h, env, required_interface_version, required_bugfix_version) ==
    IF w.instance_.api_pointers_["avs_get_env_property"] # NULL
    THEN [ok |-> \/ HostInterfaceVersion(h, env) > required_interface_version
                 \/ /\ HostInterfaceVersion(h, env) = required_interface_version
                    /\ HostInterfaceBugfix(h, env) >= required_bugfix_version,
          major |-> HostInterfaceVersion(h, env),
          bugfix |-> HostInterfaceBugfix(h, env),
          asked |-> <<<<"avs_get_env_property", "AVS_AEP_INTERFACE_VERSION">>,
                      <<"avs_get_env_property", "AVS_AEP_INTERFACE_BUGFIX">>>>]
    ELSE [ok |-> /\ avs_check_version(h, env, required_interface_version) = 0
                 /\ required_bugfix_version = 0,
          major |-> required_interface_version, bugfix |-> 0,
          asked |-> <<<<"avs_check_version", required_interface_version>>>>]

\* the version lambda of load_functions without the bugfix comparison
load_version_check_noBugfix(w, h, env, required_interface_version, required_bugfix_version) ==
    IF w.instance_.api_pointers_["avs_get_env_property"] # NULL
    THEN [ok |-> HostInterfaceVersion(h, env) >= required_interface_version,
          major |-> HostInterfaceVersion(h, env),
          bugfix |-> HostInterfaceBugfix(h, env),
          asked |-> <<<<"avs_get_env_property", "AVS_AEP_INTERFACE_VERSION">>,
                    <<"avs_get_env_property", "AVS_AEP_INTERFACE_BUGFIX">>>>]
    ELSE [ok |-> avs_check_version(h, env, required_interface_version) = 0,
          major |-> required_interface_version, bugfix |-> 0,
          asked |-> <<<<"avs_check_version", required_interface_version>>>>]

\* the version lambda of load_functions
load_version_check(w, h, env, required_interface_version, required_bugfix_version) ==
    IF w.instance_.api_pointers_["avs_get_env_property"] # NULL
    THEN LET host_major_version == HostInterfaceVersion(h, env)
             host_bugfix_version == HostInterfaceBugfix(h, env)
         IN  [ok |-> IF host_major_version > required_interface_version
                     THEN TRUE
                     ELSE IF host_major_version = required_interface_version
                          THEN host_bugfix_version >= required_bugfix_version
                          ELSE FALSE,
              major |-> host_major_version, bugfix |-> host_bugfix_version,
              asked |-> <<<<"avs_get_env_property", "AVS_AEP_INTERFACE_VERSION">>,
                      <<"avs_get_env_property", "AVS_AEP_INTERFACE_BUGFIX">>>>]
    ELSE [ok |-> avs_check_version(h, env, required_interface_version) = 0,
          major |-> required_interface_version, bugfix |-> 0,
          asked |-> <<<<"avs_check_version", required_interface_version>>>>]

\* the version_error_msg of load_functions printing the required version
\* where the detected one belongs
load_version_error_required(w, required_interface_version, required_bugfix_version, v) ==
    IF w.instance_.api_pointers_["avs_get_env_property"] # NULL
    THEN Msg("Avisynth C API Error: Plugin requires interface >= %d.%d, but found %d.%d.",
             "", <<required_interface_version, required_bugfix_version,
                   required_interface_version, required_bugfix_version>>)
    ELSE Msg("Avisynth C API Error: Plugin requires interface >= %d.%d, but the installed AviSynth+ version is too old.",
             "", <<required_interface_version, required_bugfix_version>>)

\* the version_error_msg of load_functions
load_version_error(w, required_interface_version, required_bugfix_version, v) ==
    IF w.instance_.api_pointers_["avs_get_env_property"] # NULL
    THEN Msg("Avisynth C API Error: Plugin requires interface >= %d.%d, but found %d.%d.",
             "", <<required_interface_version, required_bugfix_version,
                   v.major, v.bugfix>>)
    ELSE Msg("Avisynth C API Error: Plugin requires interface >= %d.%d, but the installed AviSynth+ version is too old.",
             "", <<required_interface_version, required_bugfix_version>>)

\* the loop of load_functions returning on an unknown name without unloading
RECURSIVE load_required_names_leak(_, _, _, _)
load_required_names_leak(w, h, required_names, i) ==
    IF i > Len(required_names)
    THEN [w |-> w, ok |-> TRUE]
    ELSE LET req_name_sv == required_names[i]
         IN  IF req_name_sv \in KnownNames
             THEN LET r == load_single_function(w, h, req_name_sv, TRUE)
                  IN  IF ~r.ok
                      THEN [w |-> unload_library(r.w), ok |-> FALSE]
                      ELSE load_required_names_leak(r.w, h, required_names, i + 1)
             ELSE [w |-> SetError(w,
                           Msg("Internal Error: Unknown function requested as required: ",
                               req_name_sv, <<>>)),
                   ok |-> FALSE]

\* the loop of load_functions over required_names, from index i on
RECURSIVE load_required_names(_, _, _, _)
load_required_names(w, h, required_names, i) ==
    IF i > Len(required_names)
    THEN [w |-> w, ok |-> TRUE]
    ELSE LET req_name_sv == required_names[i]
         IN  IF req_name_sv \in KnownNames
             THEN LET r == load_single_function(w, h, req_name_sv, TRUE)
                  IN  IF ~r.ok
                      THEN [w |-> unload_library(r.w), ok |-> FALSE]
                      ELSE load_required_names(r.w, h, required_names, i + 1)
             ELSE [w |-> unload_library(SetError(w,
                           Msg("Internal Error: Unknown function requested as required: ",
                               req_name_sv, <<>>))),
                   ok |-> FALSE]

\* load_functions without the pass over the remaining known names
load_optional_functions_skip(w, h) == w

\* the pass of load_functions over every known name whose slot is still null
load_optional_functions(w, h) ==
    LET tbl == w.instance_.api_pointers_
        todo == {n \in KnownNames : tbl[n] = NULL}
    IN  [w EXCEPT !.resolves = @ + Cardinality(todo),
                  !.instance_.api_pointers_ =
                      [n \in KnownNames |->
                          IF n \in todo
                          THEN avs_get_proc_address(h, w.instance_.library_handle_, n)
                          ELSE tbl[n]]]

\* host: avs_at_exit(env, cleanup_callback, nullptr)
avs_at_exit(w, env) == [w EXCEPT !.at_exit[env] = @ + 1]

\* load_functions, "Load Library": the open and its failure exit
load_open(w, h) ==
    LET handle == avs_open_library(h)
        w0 == [w EXCEPT !.instance_.library_handle_ = handle,
                        !.opens = @ + 1]
    IN  IF handle = NULL
        THEN [w |-> SetError(w0, Msg("Failed to load avisynth library (%s). Is Avisynth+ installed correctly?",
                                     "libavisynth.so", <<>>)),
              ok |-> FALSE]
        ELSE [w |-> w0, ok |-> TRUE]

\* load_functions resolving the required names before the version check
load_resolve_namesFirst(w, h, env, required_interface_version, required_bugfix_version, required_names) ==
    LET e1 == load_single_function(w, h, "avs_check_version", TRUE)
        e2 == load_single_function(e1.w, h, "avs_at_exit", TRUE)
        e3 == load_single_function(e2.w, h, "avs_get_env_property", FALSE)
    IN  IF ~(e1.ok /\ e2.ok /\ e3.ok)
        THEN [w |-> unload_library(e3.w), ok |-> FALSE]
        ELSE
        LET q == load_required_names(e3.w, h, required_names, 1)
        IN  IF ~q.ok
            THEN [w |-> q.w, ok |-> FALSE]
            ELSE
            LET v == load_version_check(q.w, h, env, required_interface_version,
                                        required_bugfix_version)
                wv == [q.w EXCEPT !.asked = v.asked]
            IN  IF ~v.ok
                THEN [w |-> unload_library(SetError(wv,
                              load_version_error(wv, required_interface_version,
                                                 required_bugfix_version, v))),
                      ok |-> FALSE]
                ELSE [w |-> load_optional_functions(wv, h), ok |-> TRUE]

\* load_functions from the loader essentials to the optional pass, with the
\* unload_library of each failure exit
load_resolve(w, h, env, required_interface_version, required_bugfix_version, required_names) ==
    LET e1 == load_single_function(w, h, "avs_check_version", TRUE)
        e2 == load_single_function(e1.w, h, "avs_at_exit", TRUE)
        e3 == load_single_function(e2.w, h, "avs_get_env_property", FALSE)
        essentials_ok == e1.ok /\ e2.ok /\ e3.ok
    IN  IF ~essentials_ok
        THEN [w |-> unload_library(e3.w), ok |-> FALSE]
        ELSE
        LET v == load_version_check(e3.w, h, env, required_interface_version,
                                    required_bugfix_version)
            wv == [e3.w EXCEPT !.asked = v.asked]
        IN  IF ~v.ok
            THEN [w |-> unload_library(SetError(wv,
                          load_version_error(wv, required_interface_version,
                                             required_bugfix_version, v))),
                  ok |-> FALSE]
            ELSE
            LET q == load_required_names(wv, h, required_names, 1)
            IN  IF ~q.ok
                THEN [w |-> q.w, ok |-> FALSE]
                ELSE [w |-> load_optional_functions(q.w, h), ok |-> TRUE]

\* load_functions registering the callback twice
load_finish_registerTwice(w, env) ==
    LET a == avs_at_exit(avs_at_exit(w, env), env)
    IN  [a EXCEPT !.instance_.initialized_ = TRUE,
                  !.instance_.last_error_message_ = EmptyMsg]

\* load_functions returning true without clearing the message
load_finish_keepMessage(w, env) ==
    LET a == avs_at_exit(w, env)
    IN  [a EXCEPT !.instance_.initialized_ = TRUE]

\* load_functions, "Register Cleanup" to the return
load_finish(w, env) ==
    LET a == avs_at_exit(w, env)
    IN  [a EXCEPT !.instance_.initialized_ = TRUE,
                  !.instance_.last_error_message_ = EmptyMsg]

\* load_functions(env, required_interface_version, required_bugfix_version,
\*                required_names)
load_functions(w, h, env, required_interface_version, required_bugfix_version, required_names) ==
    LET o == load_open(w, h)
    IN  IF ~o.ok
        THEN o
        ELSE LET r == load_resolve(o.w, h, env, required_interface_version,
                                   required_bugfix_version, required_names)
             IN  IF ~r.ok
                 THEN r
                 ELSE [w |-> load_finish(r.w, env), ok |-> TRUE]

\* cleanup_callback leaving the count alone
cleanup_callback_noDecrement(w, user_data, env) ==
    IF w.ref_count_ = 1 THEN unload_library(w) ELSE w

\* cleanup_callback unloading whatever the count was
cleanup_callback_always(w, user_data, env) ==
    unload_library([w EXCEPT !.ref_count_ = @ - 1])

\* cleanup_callback comparing the value after the decrement with 1
cleanup_callback_postValue(w, user_data, env) ==
    LET w1 == [w EXCEPT !.ref_count_ = @ - 1]
    IN  IF w1.ref_count_ = 1 THEN unload_library(w1) ELSE w1

\* cleanup_callback(user_data, env)
cleanup_callback(w, user_data, env) ==
    LET pre == w.ref_count_
        w1 == [w EXCEPT !.ref_count_ = @ - 1]
    IN  IF pre = 1 THEN unload_library(w1) ELSE w1

\* the version lambda of get_api with a strict bugfix comparison
loaded_version_check_strict(w, h, env, required_interface_version, required_bugfix_version) ==
    IF w.instance_.api_pointers_["avs_get_env_property"] # NULL
    THEN [ok |-> \/ HostInterfaceVersion(h, env) > required_interface_version
                 \/ /\ HostInterfaceVersion(h, env) = required_interface_version
                    /\ HostInterfaceBugfix(h, env) > required_bugfix_version,
          major |-> HostInterfaceVersion(h, env),
          bugfix |-> HostInterfaceBugfix(h, env),
          asked |-> <<<<"avs_get_env_property", "AVS_AEP_INTERFACE_VERSION">>,
                    <<"avs_get_env_property", "AVS_AEP_INTERFACE_BUGFIX">>>>]
    ELSE [ok |-> avs_check_version(h, env, required_interface_version) = 0,
          major |-> required_interface_version, bugfix |-> 0,
          asked |-> <<<<"avs_check_version", required_interface_version>>>>]

\* the version lambda of get_api accepting whatever is loaded
loaded_version_check_always(w, h, env, required_interface_version, required_bugfix_version) ==
    [ok |-> TRUE, major |-> required_interface_version, bugfix |-> 0,
     asked |-> <<>>]

\* the version lambda of get_api, run against the already loaded table
loaded_version_check(w, h, env, required_interface_version, required_bugfix_version) ==
    IF w.instance_.api_pointers_["avs_get_env_property"] # NULL
    THEN LET loaded_major_version == HostInterfaceVersion(h, env)
             loaded_bugfix_version == HostInterfaceBugfix(h, env)
         IN  [ok |-> IF loaded_major_version > required_interface_version
                     THEN TRUE
                     ELSE IF loaded_major_version = required_interface_version
                          THEN loaded_bugfix_version >= required_bugfix_version
                          ELSE FALSE,
              major |-> loaded_major_version, bugfix |-> loaded_bugfix_version,
              asked |-> <<<<"avs_get_env_property", "AVS_AEP_INTERFACE_VERSION">>,
                      <<"avs_get_env_property", "AVS_AEP_INTERFACE_BUGFIX">>>>]
    ELSE [ok |-> avs_check_version(h, env, required_interface_version) = 0,
          major |-> required_interface_version, bugfix |-> 0,
          asked |-> <<<<"avs_check_version", required_interface_version>>>>]

\* the version_error_msg of get_api printing the detected version first
loaded_version_error_swapped(w, required_interface_version, required_bugfix_version, v) ==
    IF w.instance_.api_pointers_["avs_get_env_property"] # NULL
    THEN Msg("Avisynth C API Error: Plugin requires interface >= %d.%d, but found %d.%d.",
             "", <<v.major, v.bugfix,
                   required_interface_version, required_bugfix_version>>)
    ELSE Msg("Avisynth C API Error: Plugin requires interface >= %d.%d, but the installed AviSynth+ version is too old.",
             "", <<required_interface_version, required_bugfix_version>>)

\* the version_error_msg of get_api
loaded_version_error(w, required_interface_version, required_bugfix_version, v) ==
    IF w.instance_.api_pointers_["avs_get_env_property"] # NULL
    THEN Msg("Avisynth C API Error: Plugin requires interface >= %d.%d, but found %d.%d.",
             "", <<required_interface_version, required_bugfix_version,
                   v.major, v.bugfix>>)
    ELSE Msg("Avisynth C API Error: Plugin requires interface >= %d.%d, but the installed AviSynth+ version is too old.",
             "", <<required_interface_version, required_bugfix_version>>)

\* get_api(env, required_interface_version, required_bugfix_version,
\*         required_function_names)
get_api(w, h, env, required_interface_version, required_bugfix_version, required_function_names) ==
    LET pre == w.ref_count_
        w1 == [w EXCEPT !.ref_count_ = @ + 1]
        publish(x) == [w |-> [x EXCEPT !.g_avs_api = TABLE], ret |-> TABLE]
    IN  IF pre = 0
        THEN LET r == load_functions(w1, h, env, required_interface_version,
                                     required_bugfix_version, required_function_names)
             IN  IF ~r.ok
                 THEN [w |-> [r.w EXCEPT !.ref_count_ = @ - 1, !.g_avs_api = NULL],
                       ret |-> NULL]
                 ELSE publish(r.w)
        ELSE IF w1.instance_.initialized_
             THEN LET v == loaded_version_check(w1, h, env, required_interface_version,
                                                required_bugfix_version)
                      wv == [w1 EXCEPT !.asked = v.asked]
                  IN  IF ~v.ok
                      THEN [w |-> unload_library(SetError(wv,
                                    loaded_version_error(wv, required_interface_version,
                                                         required_bugfix_version, v))),
                            ret |-> NULL]
                      ELSE publish(wv)
             ELSE [w |-> cleanup_callback(w1, NULL, env), ret |-> NULL]

(* ------------------------------ behaviour ------------------------------ *)
\* the negotiation rule on the host's interface numbers
VersionRule(h, major, bugfix) ==
    \/ h.major > major
    \/ h.major = major /\ h.bugfix >= bugfix

\* the verdict of the negotiation on this host: the rule when the property
\* getter is exported, else the answer of avs_check_version for the major
VersionMet(h, major, bugfix) ==
    IF "avs_get_env_property" \in h.exports
    THEN VersionRule(h, major, bugfix)
    ELSE h.major >= major

\* requirement <<major, bugfix>> a is identical to or laxer than b
Laxer(a, b) == a[1] < b[1] \/ (a[1] = b[1] /\ a[2] <= b[2])

\* the host can serve this call: library installed, bootstrap symbols and
\* required names exported, version requirement met
Satisfiable(h, major, bugfix, names) ==
    /\ h.present
    /\ {"avs_check_version", "avs_at_exit"} \subseteq h.exports
    /\ \A i \in 1..Len(names) : names[i] \in KnownNames \cap h.exports
    /\ IF "avs_get_env_property" \in h.exports
       THEN VersionRule(h, major, bugfix)
       ELSE h.major >= major

\* a thread that is in neither handler
IdleThread ==
    [pc |-> "idle", env |-> 1, major |-> 0, bugfix |-> 0, names |-> <<>>,
     after |-> "idle", first |-> FALSE, checked |-> FALSE, sawOne |-> FALSE]

AllIdle == \A t \in Threads : thr[t].pc = "idle"

NoCall ==
    [op |-> "none", env |-> 1, major |-> 0, bugfix |-> 0, names |-> <<>>,
     ret |-> NULL, opens |-> 0, closes |-> 0, resolves |-> 0, asked |-> <<>>]

Init ==
    /\ host \in Hosts
    /\ instance_ = NewInstance
    /\ ref_count_ = 0
    /\ g_avs_api = NULL
    /\ at_exit = [e \in Envs |-> 0]
    /\ last = [call |-> NoCall, pre |-> World, okReqs |-> {}]
    /\ calls = 0
    /\ successes = 0
    /\ teardowns = 0
    /\ failed = FALSE
    /\ allSat = TRUE
    /\ okReqs = {}
    /\ thr = [t \in Threads |-> IdleThread]
    /\ conc = [loads |-> 0, tdSawOne |-> 0, tdCloses |-> 0, held |-> 0,
               miss |-> [t \in Threads |-> {}], covered |-> {}]

\* count the avs_open_library calls logged in w that returned a handle,
\* less the avs_close_library calls logged in w
Held(c, w) ==
    [c EXCEPT !.held = @ + (IF avs_open_library(host) # NULL THEN w.opens ELSE 0)
                         - w.closes]

\* write a handler's resulting process state back
Commit(w) ==
    /\ instance_' = w.instance_
    /\ ref_count_' = w.ref_count_
    /\ g_avs_api' = w.g_avs_api
    /\ at_exit' = w.at_exit

\* a plugin's avisynth_c_plugin_init calls get_api
GetApi(env, major, bugfix, names) ==
    /\ calls < MaxCalls
    /\ AllIdle
    /\ LET r == get_api(World, host, env, major, bugfix, names)
       IN  /\ Commit(r.w)
           /\ last' = [call |-> [op |-> "get_api", env |-> env, major |-> major,
                                 bugfix |-> bugfix, names |-> names, ret |-> r.ret,
                                 opens |-> r.w.opens, closes |-> r.w.closes,
                                 resolves |-> r.w.resolves, asked |-> r.w.asked],
                       pre |-> World, okReqs |-> okReqs]
           /\ successes' = IF r.ret # NULL THEN successes + 1 ELSE successes
           /\ failed' = (failed \/ r.ret = NULL)
           /\ allSat' = (allSat /\ Satisfiable(host, major, bugfix, names))
           /\ okReqs' = IF r.w.closes > 0 THEN {}
                        ELSE IF r.ret # NULL THEN okReqs \cup {<<major, bugfix>>}
                        ELSE okReqs
           /\ conc' = IF ref_count_ = 0 /\ r.ret # NULL
                      THEN [Held(conc, r.w) EXCEPT !.loads = @ + 1]
                      ELSE Held(conc, r.w)
    /\ calls' = calls + 1
    /\ UNCHANGED <<host, teardowns, thr>>

\* the effect of one host invocation of the registered callback
RunCallback(w, env) ==
    LET r == cleanup_callback(w, NULL, env)
    IN  /\ Commit(r)
        /\ last' = [call |-> [op |-> "cleanup_callback", env |-> env, major |-> 0,
                              bugfix |-> 0, names |-> <<>>, ret |-> NULL,
                              opens |-> r.opens, closes |-> r.closes,
                              resolves |-> r.resolves, asked |-> r.asked],
                    pre |-> World, okReqs |-> okReqs]
        /\ teardowns' = teardowns + 1
        /\ okReqs' = IF r.closes > 0 THEN {} ELSE okReqs
        /\ conc' = [Held(conc, r) EXCEPT
                      !.tdSawOne = IF w.ref_count_ = 1 THEN @ + 1 ELSE @,
                      !.tdCloses = @ + r.closes]
        /\ UNCHANGED <<host, calls, successes, failed, allSat, thr>>

\* the host destroys env and invokes one callback registered on it
Teardown(env) ==
    /\ at_exit[env] > 0
    /\ RunCallback([World EXCEPT !.at_exit[env] = @ - 1], env)

\* a host that tears down once per successful get_api, whichever env
\* the callback was registered on
TeardownMatched(env) ==
    /\ teardowns < successes
    /\ RunCallback([World EXCEPT !.at_exit[env] = IF @ > 0 THEN @ - 1 ELSE 0], env)

Next ==
    \/ \E env \in Envs, major \in ReqMajors, bugfix \in ReqBugfixes,
          names \in ReqNameLists : GetApi(env, major, bugfix, names)
    \/ \E env \in Envs : Teardown(env)

Spec == Init /\ [][Next]_vars

NextMatched ==
    \/ \E env \in Envs, major \in ReqMajors, bugfix \in ReqBugfixes,
          names \in ReqNameLists : GetApi(env, major, bugfix, names)
    \/ \E env \in Envs : TeardownMatched(env)

SpecMatched == Init /\ [][NextMatched]_vars

(* ------------------------ interleaved behaviour ------------------------ *)
\* the std::memory_order arguments of the three accesses to ref_count_
FetchAddOrder == "relaxed"
CallbackFetchSubOrder == "release"
RollbackFetchSubOrder == "relaxed"

\* conc.miss[t]: the threads whose latest plain writes to instance_ or
\* g_avs_api do not happen-before thread t's current point;
\* conc.covered: the threads whose latest plain writes are carried by the
\* release sequence on ref_count_.
\* a plain (non-atomic) write by thread t
PlainWrite(c, t) ==
    [c EXCEPT !.miss = [u \in Threads |->
                           IF u = t THEN c.miss[u] ELSE c.miss[u] \cup {t}],
              !.covered = @ \ {t}]

\* std::atomic_thread_fence(acquire) after reading ref_count_, or an
\* acquire read-modify-write of it
Acquire(c, t) == [c EXCEPT !.miss[t] = @ \ c.covered]

\* a release read-modify-write of ref_count_ by thread t
Release(c, t) == [c EXCEPT !.covered = @ \cup (Threads \ c.miss[t])]

\* a read-modify-write of ref_count_ with the given order; every such
\* operation continues the release sequence
AtomicRMW(c, t, order) ==
    LET a == IF order \in {"acquire", "acq_rel", "seq_cst"}
             THEN Acquire(c, t) ELSE c
    IN  IF order \in {"release", "acq_rel", "seq_cst"}
        THEN Release(a, t) ELSE a

\* cleanup_callback: the fetch_sub and, when it returned 1, the acquire fence
CallbackSync(c, t, pre) ==
    LET r == AtomicRMW(c, t, CallbackFetchSubOrder)
    IN  IF pre = 1 THEN Acquire(r, t) ELSE r

\* ref_count_.fetch_add(1) adding two
fetch_add_two(w) == [w EXCEPT !.ref_count_ = @ + 2]

\* ref_count_.fetch_add(1): the new process state; the old count is w.ref_count_
fetch_add(w) == [w EXCEPT !.ref_count_ = @ + 1]

\* ref_count_.fetch_sub(1) taking two instead of one
fetch_sub_two(w) == [w EXCEPT !.ref_count_ = @ - 2]

\* ref_count_.fetch_sub(1): the new process state; the old count is w.ref_count_
fetch_sub(w) == [w EXCEPT !.ref_count_ = @ - 1]

\* unload_library closing the library but keeping the handle
unload_close_keepHandle(w) == [w EXCEPT !.closes = @ + 1]

\* unload_library, first half: avs_close_library and the handle reset
unload_close(w) ==
    [w EXCEPT !.closes = @ + 1, !.instance_.library_handle_ = NULL]

\* unload_library, second half: table, flag and accessor reset
unload_clear(w) ==
    [w EXCEPT !.instance_.api_pointers_ = ZeroTable,
              !.instance_.initialized_ = FALSE,
              !.g_avs_api = NULL]

\* get_last_error()
get_last_error(inst) ==
    IF inst.last_error_message_ # EmptyMsg
    THEN inst.last_error_message_
    ELSE FallbackMsg

InLoad(t) == thr[t].pc \in {"load_open", "load_resolve", "load_register"}
InUnload(t) == thr[t].pc \in {"unload_close", "unload_clear"}

Goto(t, pc) == thr' = [thr EXCEPT ![t].pc = pc]

\* thread t returns ret from get_api; last.pre is the process state the
\* return statement executes in
Return(t, ret) ==
    /\ thr' = [thr EXCEPT ![t] = IdleThread]
    /\ last' = [call |-> [op |-> "get_api", env |-> thr[t].env,
                          major |-> thr[t].major, bugfix |-> thr[t].bugfix,
                          names |-> thr[t].names, ret |-> ret,
                          opens |-> 0, closes |-> 0, resolves |-> 0,
                          asked |-> <<>>],
                pre |-> World, okReqs |-> okReqs]
    /\ successes' = IF ret # NULL THEN successes + 1 ELSE successes
    /\ failed' = (failed \/ ret = NULL)
    /\ okReqs' = IF ret # NULL
                 THEN okReqs \cup {<<thr[t].major, thr[t].bugfix>>}
                 ELSE okReqs

\* get_api entry: the fetch_add and the branch on the value it returns
CStart(t, env, major, bugfix, names) ==
    /\ thr[t].pc = "idle"
    /\ calls < MaxConcCalls
    /\ Commit(fetch_add(World))
    /\ thr' = [thr EXCEPT ![t] =
                 [pc |-> IF ref_count_ = 0 THEN "load_open" ELSE "check_init",
                  env |-> env, major |-> major, bugfix |-> bugfix,
                  names |-> names, after |-> "idle",
                  first |-> (ref_count_ = 0), checked |-> FALSE,
                  sawOne |-> FALSE]]
    /\ calls' = calls + 1
    /\ allSat' = (allSat /\ Satisfiable(host, major, bugfix, names))
    /\ conc' = AtomicRMW(conc, t, FetchAddOrder)
    /\ UNCHANGED <<host, last, successes, teardowns, failed, okReqs>>

\* load_functions: avs_open_library
CLoadOpen(t) ==
    /\ thr[t].pc = "load_open"
    /\ LET r == load_open(World, host)
       IN  /\ Commit(r.w)
           /\ Goto(t, IF r.ok THEN "load_resolve" ELSE "load_failed")
           /\ conc' = Held(PlainWrite(conc, t), r.w)
    /\ UNCHANGED <<host, last, calls, successes, teardowns, failed, allSat,
                   okReqs>>

\* load_functions: essentials, version check, required and optional names
CLoadResolve(t) ==
    /\ thr[t].pc = "load_resolve"
    /\ LET r == load_resolve(World, host, thr[t].env, thr[t].major,
                             thr[t].bugfix, thr[t].names)
       IN  /\ Commit(r.w)
           /\ Goto(t, IF r.ok THEN "load_register" ELSE "load_failed")
           /\ okReqs' = IF r.w.closes > 0 THEN {} ELSE okReqs
           /\ conc' = Held(PlainWrite(conc, t), r.w)
    /\ UNCHANGED <<host, last, calls, successes, teardowns, failed, allSat>>

\* load_functions: avs_at_exit, initialized_ = true, message cleared
CLoadRegister(t) ==
    /\ thr[t].pc = "load_register"
    /\ Commit(load_finish(World, thr[t].env))
    /\ Goto(t, "publish")
    /\ conc' = [PlainWrite(conc, t) EXCEPT !.loads = @ + 1]
    /\ UNCHANGED <<host, last, calls, successes, teardowns, failed, allSat,
                   okReqs>>

\* get_api: load_functions returned false
CLoadFailed(t) ==
    /\ thr[t].pc = "load_failed"
    /\ Commit([fetch_sub(World) EXCEPT !.g_avs_api = NULL])
    /\ Return(t, NULL)
    /\ conc' = PlainWrite(AtomicRMW(conc, t, RollbackFetchSubOrder), t)
    /\ UNCHANGED <<host, calls, teardowns, allSat>>

\* get_api: if (instance_.initialized_)
CCheckInit(t) ==
    /\ thr[t].pc = "check_init"
    /\ Goto(t, IF instance_.initialized_ THEN "check_version" ELSE "check_init2")
    /\ UNCHANGED <<host, instance_, ref_count_, g_avs_api, at_exit, last, calls,
                   successes, teardowns, failed, allSat, okReqs, conc>>

\* get_api: else if (!instance_.initialized_), a second read of the flag
CCheckInit2(t) ==
    /\ thr[t].pc = "check_init2"
    /\ Goto(t, IF ~instance_.initialized_ THEN "backoff" ELSE "publish")
    /\ UNCHANGED <<host, instance_, ref_count_, g_avs_api, at_exit, last, calls,
                   successes, teardowns, failed, allSat, okReqs, conc>>

\* get_api: the version lambda and the version error
CCheckVersion(t) ==
    /\ thr[t].pc = "check_version"
    /\ LET v == loaded_version_check(World, host, thr[t].env, thr[t].major,
                                     thr[t].bugfix)
       IN  IF v.ok
           THEN /\ thr' = [thr EXCEPT ![t].pc = "publish", ![t].checked = TRUE]
                /\ UNCHANGED <<instance_, ref_count_, g_avs_api, at_exit, conc>>
           ELSE /\ Commit(SetError(World,
                            loaded_version_error(World, thr[t].major,
                                                 thr[t].bugfix, v)))
                /\ thr' = [thr EXCEPT ![t].pc = "unload_close",
                                      ![t].after = "ret_null",
                                      ![t].checked = TRUE]
                /\ conc' = PlainWrite(conc, t)
    /\ UNCHANGED <<host, last, calls, successes, teardowns, failed, allSat,
                   okReqs>>

\* get_api: cleanup_callback(nullptr, env) on the not-initialized branch
CBackoff(t) ==
    /\ thr[t].pc = "backoff"
    /\ Commit(fetch_sub(World))
    /\ thr' = [thr EXCEPT ![t].pc = IF ref_count_ = 1 THEN "unload_close"
                                                      ELSE "ret_null",
                          ![t].after = "ret_null",
                          ![t].sawOne = (ref_count_ = 1)]
    /\ conc' = CallbackSync(conc, t, ref_count_)
    /\ UNCHANGED <<host, last, calls, successes, teardowns, failed, allSat,
                   okReqs>>

\* get_api: return nullptr
CReturnNull(t) ==
    /\ thr[t].pc = "ret_null"
    /\ Return(t, NULL)
    /\ UNCHANGED <<host, instance_, ref_count_, g_avs_api, at_exit, calls,
                   teardowns, allSat, conc>>

\* get_api: g_avs_api = &instance_.api_pointers_; return g_avs_api
CPublish(t) ==
    /\ thr[t].pc = "publish"
    /\ Commit([World EXCEPT !.g_avs_api = TABLE])
    /\ Return(t, TABLE)
    /\ conc' = PlainWrite(conc, t)
    /\ UNCHANGED <<host, calls, teardowns, allSat>>

\* cleanup_callback on thread t: the fetch_sub and the branch on its value
RunCallbackOn(t, w) ==
    /\ thr[t].pc = "idle"
    /\ Commit(fetch_sub(w))
    /\ thr' = [thr EXCEPT ![t].pc = IF w.ref_count_ = 1 THEN "unload_close"
                                                        ELSE "idle",
                          ![t].after = "idle",
                          ![t].sawOne = (w.ref_count_ = 1)]
    /\ teardowns' = teardowns + 1
    /\ conc' = [CallbackSync(conc, t, w.ref_count_) EXCEPT
                   !.tdSawOne = IF w.ref_count_ = 1 THEN @ + 1 ELSE @]
    /\ UNCHANGED <<host, last, calls, successes, failed, allSat, okReqs>>

\* the host destroys env and invokes one callback registered on it
CTeardown(t, env) ==
    /\ at_exit[env] > 0
    /\ RunCallbackOn(t, [World EXCEPT !.at_exit[env] = @ - 1])

\* a host that tears down once per successful get_api
CTeardownMatched(t, env) ==
    /\ teardowns < successes
    /\ RunCallbackOn(t, [World EXCEPT !.at_exit[env] = IF @ > 0 THEN @ - 1 ELSE 0])

\* unload_library: if (library_handle_) { avs_close_library; handle = nullptr
CUnloadClose(t) ==
    /\ thr[t].pc = "unload_close"
    /\ IF instance_.library_handle_ # NULL
       THEN /\ Commit(unload_close(World))
            /\ Goto(t, "unload_clear")
            /\ okReqs' = {}
            /\ conc' = IF thr[t].after = "idle"
                       THEN [PlainWrite(conc, t) EXCEPT !.tdCloses = @ + 1,
                                                        !.held = @ - 1]
                       ELSE [PlainWrite(conc, t) EXCEPT !.held = @ - 1]
       ELSE /\ thr' = [thr EXCEPT ![t].pc = thr[t].after, ![t].after = "idle",
                                  ![t].sawOne = FALSE]
            /\ UNCHANGED <<instance_, ref_count_, g_avs_api, at_exit, okReqs,
                           conc>>
    /\ UNCHANGED <<host, last, calls, successes, teardowns, failed, allSat>>

\* unload_library: api_pointers_ = {}; initialized_ = false; g_avs_api = nullptr }
CUnloadClear(t) ==
    /\ thr[t].pc = "unload_clear"
    /\ Commit(unload_clear(World))
    /\ thr' = [thr EXCEPT ![t].pc = thr[t].after, ![t].after = "idle",
                          ![t].sawOne = FALSE]
    /\ conc' = PlainWrite(conc, t)
    /\ UNCHANGED <<host, last, calls, successes, teardowns, failed, allSat,
                   okReqs>>

\* the hosts the interleaved behaviours run against: at interface 10.0 with
\* each export set, or not installed
ConcHosts == {h \in Hosts : ~h.present \/ (h.major = 10 /\ h.bugfix = 0)}

InitConc == Init /\ host \in ConcHosts

\* the steps of a call or callback already under way
StepOf(t) ==
    \/ CLoadOpen(t) \/ CLoadResolve(t) \/ CLoadRegister(t) \/ CLoadFailed(t)
    \/ CCheckInit(t) \/ CCheckInit2(t) \/ CCheckVersion(t) \/ CBackoff(t)
    \/ CReturnNull(t) \/ CPublish(t)

NextConc ==
    \/ \E t \in Threads, env \in Envs, major \in ReqMajors,
          bugfix \in ConcBugfixes, names \in ConcNameLists :
          CStart(t, env, major, bugfix, names)
    \/ \E t \in Threads : StepOf(t)
    \/ \E t \in Threads, env \in Envs : CTeardown(t, env)
    \/ \E t \in Threads : CUnloadClose(t)
    \/ \E t \in Threads : CUnloadClear(t)

\* get_api and cleanup_callback called from any thread at any time; the
\* host invokes the callbacks registered through avs_at_exit, once each
SpecConc == InitConc /\ [][NextConc]_vars

NextTeardowns ==
    \/ \E env \in Envs, major \in ReqMajors, bugfix \in ConcBugfixes,
          names \in ConcNameLists : GetApi(env, major, bugfix, names)
    \/ \E t \in Threads, env \in Envs : CTeardownMatched(t, env)
    \/ \E t \in Threads : CUnloadClose(t)
    \/ \E t \in Threads : CUnloadClear(t)

\* get_api calls one at a time, each while no callback is running; the
\* teardown callbacks, one per successful call, on any thread at any time
SpecTeardowns == InitConc /\ [][NextTeardowns]_vars

(* ------------------------------- states -------------------------------- *)
UNLOADED ==
    /\ instance_.library_handle_ = NULL
    /\ instance_.api_pointers_ = ZeroTable
    /\ ~instance_.initialized_
    /\ g_avs_api = NULL
    /\ ref_count_ = 0

READY ==
    /\ instance_.library_handle_ # NULL
    /\ instance_.initialized_
    /\ instance_.api_pointers_["avs_check_version"] # NULL
    /\ instance_.api_pointers_["avs_at_exit"] # NULL
    /\ ref_count_ >= 1

TypeOK ==
    /\ host \in Hosts
    /\ instance_.library_handle_ \in {NULL, LIB}
    /\ instance_.initialized_ \in BOOLEAN
    /\ \A n \in KnownNames : instance_.api_pointers_[n] \in {NULL, n}
    /\ g_avs_api \in {NULL, TABLE}
    /\ ref_count_ \in Int
    /\ \A e \in Envs : at_exit[e] \in Nat

\* the same two states, of the process state a call started from
WasUNLOADED ==
    /\ last.pre.instance_.library_handle_ = NULL
    /\ last.pre.instance_.api_pointers_ = ZeroTable
    /\ ~last.pre.instance_.initialized_
    /\ last.pre.g_avs_api = NULL
    /\ last.pre.ref_count_ = 0

WasREADY ==
    /\ last.pre.instance_.library_handle_ # NULL
    /\ last.pre.instance_.initialized_
    /\ last.pre.ref_count_ >= 1

GetApiReturned == last.call.op = "get_api"
ReturnedNull == GetApiReturned /\ last.call.ret = NULL
ReturnedTable == GetApiReturned /\ last.call.ret # NULL

(* ------------------------------- claims -------------------------------- *)

\* C1: the reference count equals the number of get_api calls that returned
\* a table minus the number of teardown callbacks the host has invoked, and
\* a get_api call that returns null leaves the count where it was.
C1_CountIsSuccessesMinusTeardowns ==
    /\ ref_count_ = successes - teardowns
    /\ ReturnedNull => ref_count_ = last.pre.ref_count_

\* C2: the library is closed only at a reference-count transition to zero
\* or as the rollback of a failing load: a call that closed the library and
\* was not a failing first-caller load leaves the count at zero.
C2_CloseOnlyAtZero ==
    (last.call.closes > 0 /\ ~(ReturnedNull /\ last.pre.ref_count_ = 0))
        => ref_count_ = 0

\* C3: whenever get_api returns a table, every name of that call's required
\* list is a known name whose slot in the table is non-null.
C3_RequiredSlotsNonNull ==
    ReturnedTable =>
        \A i \in 1..Len(last.call.names) :
            /\ last.call.names[i] \in KnownNames
            /\ instance_.api_pointers_[last.call.names[i]] # NULL

\* C4: a call that returns a table on a host exporting the property getter
\* has its version requirement met by the host; and a first caller whose
\* requirement is met, on a host with the library, the bootstrap symbols and
\* the required names, gets a table.
C4_VersionNegotiation ==
    /\ (ReturnedTable /\ "avs_get_env_property" \in host.exports)
           => VersionRule(host, last.call.major, last.call.bugfix)
    /\ (/\ GetApiReturned
        /\ last.pre.ref_count_ = 0
        /\ host.present
        /\ {"avs_check_version", "avs_at_exit"} \subseteq host.exports
        /\ \A i \in 1..Len(last.call.names) :
               last.call.names[i] \in KnownNames \cap host.exports
        /\ VersionRule(host, last.call.major, last.call.bugfix))
           => last.call.ret # NULL

\* required 10.0 against a host at 10.0, first caller, succeeds
C4_Witness ==
    /\ ReturnedTable
    /\ last.pre.ref_count_ = 0
    /\ "avs_get_env_property" \in host.exports
    /\ host.major = 10 /\ host.bugfix = 0
    /\ last.call.major = 10 /\ last.call.bugfix = 0

\* C5: when every get_api call so far succeeded and there were at least two,
\* each got the one table address, the library is open while a registered
\* teardown callback is still to be invoked, and once the host has invoked
\* every registered callback the library is unloaded (count 0, handle null).
C5_SharedUntilAllTornDown ==
    (~failed /\ successes >= 2) =>
        /\ ReturnedTable => last.call.ret = TABLE /\ g_avs_api = TABLE
        /\ (\E e \in Envs : at_exit[e] > 0)
               => instance_.library_handle_ # NULL
        /\ (\A e \in Envs : at_exit[e] = 0)
               => (ref_count_ = 0 /\ instance_.library_handle_ = NULL)

\* C6: every state between calls is UNLOADED or READY; a null handle with a
\* positive reference count is not reachable.
C6_UnloadedOrReady ==
    /\ UNLOADED \/ READY
    /\ ~(instance_.library_handle_ = NULL /\ ref_count_ >= 1)

\* C7: a get_api call that observed a count of 0 and returned null leaves
\* the loader UNLOADED: handle null, table all-null, initialized false,
\* accessor null, count 0.
C7_FailedLoadRollsBack ==
    (ReturnedNull /\ last.pre.ref_count_ = 0) => UNLOADED

\* a first caller failed after the library had been opened
C7_Witness ==
    /\ ReturnedNull
    /\ last.pre.ref_count_ = 0
    /\ last.call.opens = 1
    /\ last.call.closes = 1
    /\ last.call.resolves >= 3

\* C8: when a call requiring 10.0 succeeded on a host at 10.0 and a later
\* call requires 11.0, that call returns null, closes the library and
\* leaves the loader UNLOADED with count 0.
C8_StricterCallerUnloads ==
    (/\ GetApiReturned
     /\ last.call.major = 11 /\ last.call.bugfix = 0
     /\ host.major = 10 /\ host.bugfix = 0
     /\ <<10, 0>> \in last.okReqs
     /\ WasREADY)
        => (last.call.ret = NULL /\ last.call.closes = 1 /\ UNLOADED)

\* C9: while every get_api call asked for what the host has, the count
\* before any teardown is the number of calls, and after as many teardown
\* callbacks as calls the count is 0, the handle null and the table zeroed.
C9_CountTracksCalls ==
    allSat =>
        /\ teardowns = 0 => ref_count_ = calls
        /\ (calls >= 1 /\ teardowns = calls)
               => /\ ref_count_ = 0
                  /\ instance_.library_handle_ = NULL
                  /\ instance_.api_pointers_ = ZeroTable

\* two calls were made and then torn down twice in a row
C9_Witness ==
    /\ allSat
    /\ calls >= 2
    /\ teardowns = calls
    /\ last.call.op = "cleanup_callback"
    /\ last.pre.ref_count_ = 1
    /\ last.call.closes = 1

\* C10: a get_api call on a READY loader whose requirement is identical to
\* or laxer than one that succeeded since the load opens nothing, resolves
\* nothing, leaves the instance (handle, table, flag, message) as it was,
\* adds exactly 1 to the count and returns the table address.
C10_ReadyCallIsIdempotent ==
    (/\ GetApiReturned
     /\ WasREADY
     /\ \E r \in last.okReqs : Laxer(<<last.call.major, last.call.bugfix>>, r))
        => /\ last.call.opens = 0
           /\ last.call.resolves = 0
           /\ last.call.closes = 0
           /\ instance_ = last.pre.instance_
           /\ ref_count_ = last.pre.ref_count_ + 1
           /\ last.call.ret = TABLE
           /\ g_avs_api = TABLE

\* a READY loader was asked again with the very requirement the host is at
C10_Witness ==
    /\ ReturnedTable
    /\ WasREADY
    /\ <<last.call.major, last.call.bugfix>> \in last.okReqs
    /\ last.call.major = host.major
    /\ last.call.bugfix = host.bugfix
    /\ "avs_get_env_property" \in host.exports
    /\ ref_count_ = 3

\* C11: a successful get_api followed by the matching teardown callback
\* leaves the loader as it was constructed: handle null, every slot null,
\* initialized false, error message empty, accessor null, count 0.
C11_RoundTrip ==
    (/\ last.call.op = "cleanup_callback"
     /\ WasREADY
     /\ last.pre.ref_count_ = 1)
        => /\ instance_ = NewInstance
           /\ g_avs_api = NULL
           /\ ref_count_ = 0

\* one successful call from the never-loaded state, then its teardown
C11_Witness ==
    /\ calls = 1 /\ successes = 1 /\ teardowns = 1
    /\ last.call.op = "cleanup_callback"
    /\ last.call.closes = 1

\* index of the first name of the list that is not in the schema (0: none)
FirstUnknown(names) ==
    LET bad == {i \in 1..Len(names) : names[i] \notin KnownNames}
    IN  IF bad = {} THEN 0 ELSE CHOOSE i \in bad : \A j \in bad : i <= j

UnknownNameError(name) ==
    Msg("Internal Error: Unknown function requested as required: ", name, <<>>)

\* the load sequence of the last call reaches the unknown name: the library
\* opens, the bootstrap symbols resolve, the version check passes and every
\* earlier name of the list resolves
ReachesUnknown ==
    /\ host.present
    /\ {"avs_check_version", "avs_at_exit"} \subseteq host.exports
    /\ VersionMet(host, last.call.major, last.call.bugfix)
    /\ \A j \in 1..(FirstUnknown(last.call.names) - 1) :
           last.call.names[j] \in host.exports

LoadWithUnknownName ==
    /\ GetApiReturned
    /\ last.pre.ref_count_ = 0
    /\ FirstUnknown(last.call.names) # 0

\* C12 as stated: a load sequence whose required list has an unknown name
\* returns null with the unknown-function error naming it, registers no
\* teardown callback and leaves no handle open.
C12_UnknownNameError ==
    LoadWithUnknownName =>
        /\ last.call.ret = NULL
        /\ instance_.last_error_message_
              = UnknownNameError(last.call.names[FirstUnknown(last.call.names)])
        /\ at_exit = last.pre.at_exit
        /\ instance_.library_handle_ = NULL

\* C12 amended: such a load sequence returns null, registers no teardown
\* callback and leaves no handle open; the error is the unknown-function
\* error naming it exactly when the sequence reaches that name, and the
\* error of the earlier failing step otherwise.
C12_UnknownNameFailsLoad ==
    LoadWithUnknownName =>
        /\ last.call.ret = NULL
        /\ at_exit = last.pre.at_exit
        /\ instance_.library_handle_ = NULL
        /\ instance_.last_error_message_ # EmptyMsg
        /\ ReachesUnknown <=>
              instance_.last_error_message_
                = UnknownNameError(last.call.names[FirstUnknown(last.call.names)])

\* the load got as far as the unknown name and was rolled back
C12_Witness ==
    /\ LoadWithUnknownName
    /\ ReachesUnknown
    /\ last.call.opens = 1
    /\ last.call.closes = 1
    /\ instance_.last_error_message_.name = "avs_totally_made_up"

\* C13: a successful get_api leaves g_avs_api at the returned table address;
\* g_avs_api is non-null only while the handle is open and initialized is
\* true; after an unload or a failed load it is null.
C13_AccessorOnlyWhenReady ==
    /\ ReturnedTable => (g_avs_api = last.call.ret /\ g_avs_api = TABLE)
    /\ g_avs_api # NULL
          => (instance_.library_handle_ # NULL /\ instance_.initialized_)
    /\ (last.call.closes > 0 \/ ReturnedNull) => g_avs_api = NULL

\* the accessor was published and then nulled by the teardown unload
C13_Witness ==
    /\ last.call.op = "cleanup_callback"
    /\ last.call.closes = 1
    /\ last.pre.g_avs_api = TABLE
    /\ g_avs_api = NULL

\* in the interleaved specifications: the process state a get_api call
\* returned in
AtReturn == last.pre

\* C14: whenever get_api returns null the last error message is non-empty
\* at that point, so that get_last_error gives a description and not the
\* fallback string.
C14_NullReturnHasMessage ==
    ReturnedNull =>
        /\ AtReturn.instance_.last_error_message_ # EmptyMsg
        /\ get_last_error(AtReturn.instance_) # FallbackMsg

\* C15: the reference count is never negative, under any interleaving of
\* get_api calls and of the teardown callbacks registered through
\* avs_at_exit, each invoked at most once.
C15_CountNeverNegative == ref_count_ >= 0

\* a callback has run and a caller that found the loader not initialized
\* is about to take the count from 1 to 0
C15_Witness ==
    /\ teardowns >= 1
    /\ ref_count_ = 1
    /\ \E t \in Threads : thr[t].pc = "backoff"

\* C16: no thread is inside load_functions while another is inside
\* unload_library, and no two threads are inside unload_library or inside
\* load_functions at the same time.
C16_OneLoadOrUnloadAtATime ==
    \A t, u \in Threads :
        t # u => /\ ~(InLoad(t) /\ InUnload(u))
                 /\ ~(InUnload(t) /\ InUnload(u))
                 /\ ~(InLoad(t) /\ InLoad(u))

\* C17: a get_api call that returns the table returns with the handle open,
\* initialized true and the bootstrap slots populated; and no thread is in
\* the load sequence while the unload of a decrement-to-zero is unfinished.
C17_NoTornState ==
    /\ ReturnedTable =>
          /\ AtReturn.instance_.library_handle_ # NULL
          /\ AtReturn.instance_.initialized_
          /\ AtReturn.instance_.api_pointers_["avs_check_version"] # NULL
          /\ AtReturn.instance_.api_pointers_["avs_at_exit"] # NULL
    /\ \A t, u \in Threads :
          ~(InLoad(t) /\ InUnload(u) /\ thr[u].sawOne)

\* C18: only a thread whose increment observed 0 is in the load sequence; a
\* thread that observed a nonzero count publishes the table only after the
\* version re-check; two threads are never in the load sequence together.
C18_OnlyFirstCallerLoads ==
    /\ \A t \in Threads : InLoad(t) => thr[t].first
    /\ \A t \in Threads :
          (thr[t].pc = "publish" /\ ~thr[t].first) => thr[t].checked
    /\ \A t, u \in Threads : (InLoad(t) /\ InLoad(u)) => t = u

\* C19: when the teardown callbacks of all N successful calls have run, in
\* any interleaving and with no get_api in progress, exactly one callback
\* per load observed the count at 1, the library was closed once per load,
\* and the loader is UNLOADED with count 0.
C19_ConcurrentTeardowns ==
    /\ conc.tdSawOne <= conc.loads
    /\ conc.tdCloses <= conc.tdSawOne
    /\ (AllIdle /\ allSat /\ successes >= 1 /\ teardowns = successes)
          => /\ UNLOADED
             /\ conc.tdSawOne = conc.loads
             /\ conc.tdCloses = conc.loads

\* one load, three successful calls, three callbacks, all finished
C19_Witness ==
    /\ AllIdle /\ allSat
    /\ successes = 3 /\ teardowns = 3
    /\ conc.loads = 1 /\ conc.tdCloses = 1
    /\ UNLOADED

\* C20: whenever the loader is READY the host version satisfies the
\* requirement of every call that returned the table since the last unload.
C20_LiveRequirementsMet ==
    READY => \A r \in okReqs : VersionRule(host, r[1], r[2])

\* C21 as stated: get_last_error returns the fixed fallback string only if
\* no get_api call has failed, i.e. no failure message was ever recorded.
C21_FallbackOnlyIfNeverFailed ==
    get_last_error(instance_) = FallbackMsg => ~failed

\* C21 amended: get_last_error returns the message recorded by the most
\* recent failing call since the last successful load sequence, and the
\* fallback if there is none: a failing call leaves a non-empty message (the
\* not-initialized branch the one it found), a successful load sequence
\* clears it, and a successful call on a READY loader or a teardown
\* callback leaves it as it was.
C21_LastErrorSinceLoad ==
    /\ get_last_error(instance_) = FallbackMsg
          <=> instance_.last_error_message_ = EmptyMsg
    /\ ReturnedNull =>
          /\ get_last_error(instance_) = instance_.last_error_message_
          /\ get_last_error(instance_) # FallbackMsg
          /\ (last.pre.ref_count_ > 0 /\ ~last.pre.instance_.initialized_)
                => instance_.last_error_message_
                     = last.pre.instance_.last_error_message_
    /\ (ReturnedTable /\ last.pre.ref_count_ = 0)
          => get_last_error(instance_) = FallbackMsg
    /\ ((ReturnedTable /\ last.pre.ref_count_ > 0)
           \/ last.call.op = "cleanup_callback")
          => instance_.last_error_message_
               = last.pre.instance_.last_error_message_

\* a load sequence succeeded after an earlier call had recorded a failure
C21_Witness ==
    /\ ReturnedTable
    /\ failed
    /\ last.pre.ref_count_ = 0
    /\ last.pre.instance_.last_error_message_ # EmptyMsg
    /\ get_last_error(instance_) = FallbackMsg

\* the last call ran a version check (in the load sequence or as the
\* re-check on a READY loader) and the host does not meet its requirement
VersionFailure ==
    /\ GetApiReturned
    /\ host.present
    /\ {"avs_check_version", "avs_at_exit"} \subseteq host.exports
    /\ last.pre.ref_count_ = 0 \/ WasREADY
    /\ ~VersionMet(host, last.call.major, last.call.bugfix)

\* C22: a call that fails the version check returns null with a message
\* that carries the required major and bugfix and, when the host exports
\* the property getter, the host's major and bugfix; without the getter
\* the message is the degraded one, carrying the required version only.
C22_VersionErrorMessage ==
    VersionFailure =>
        /\ last.call.ret = NULL
        /\ instance_.last_error_message_ =
              IF "avs_get_env_property" \in host.exports
              THEN Msg("Avisynth C API Error: Plugin requires interface >= %d.%d, but found %d.%d.",
                       "", <<last.call.major, last.call.bugfix,
                             host.major, host.bugfix>>)
              ELSE Msg("Avisynth C API Error: Plugin requires interface >= %d.%d, but the installed AviSynth+ version is too old.",
                       "", <<last.call.major, last.call.bugfix>>)

\* required 10.0 against a host whose getter reports major 9
C22_Witness ==
    /\ VersionFailure
    /\ "avs_get_env_property" \in host.exports
    /\ host.major = 9
    /\ last.call.major = 10 /\ last.call.bugfix = 0
    /\ instance_.last_error_message_.nums[1] = 10
    /\ instance_.last_error_message_.nums[2] = 0
    /\ instance_.last_error_message_.nums[3] = 9

\* a get_api call made in this state with these arguments returns null and
\* leaves the loader exactly as it is, so that repeating it changes nothing
FailsForGood(env, major, bugfix, names) ==
    LET r == get_api(World, host, env, major, bugfix, names)
    IN  /\ r.ret = NULL
        /\ r.w.instance_ = instance_
        /\ r.w.ref_count_ = ref_count_
        /\ r.w.g_avs_api = g_avs_api
        /\ r.w.at_exit = at_exit

\* C23: once a get_api call has failed and every registered teardown
\* callback has run, a call whose requirements the host can serve is not
\* refused for good: the loader is never left permanently unable to load.
C23_FailureIsLocal ==
    (failed /\ \A e \in Envs : at_exit[e] = 0) =>
        \A env \in Envs, major \in ReqMajors, bugfix \in ReqBugfixes,
           names \in ReqNameLists :
            Satisfiable(host, major, bugfix, names)
                => ~FailsForGood(env, major, bugfix, names)

\* C24: after a teardown callback has brought the count to zero (no call
\* having failed), a thread whose increment took the count from 0 and is
\* about to re-run the load sequence has every write of the previous load
\* and unload by other threads ordered before it through the reference
\* count.
C24_CountSynchronizesReload ==
    \A t \in Threads :
        (thr[t].pc = "load_open" /\ ~failed /\ teardowns >= 1)
            => conc.miss[t] = {}

\* C25: the teardown callback takes exactly 1 from the count, whatever its
\* env; from a count of 1 it leaves the handle null, the table zeroed,
\* initialized false and the accessor null; from a count above 1 it leaves
\* the handle, the table, the flag, the message and the accessor as they
\* were.
C25_CallbackEffect ==
    last.call.op = "cleanup_callback" =>
        /\ ref_count_ = last.pre.ref_count_ - 1
        /\ last.pre.ref_count_ = 1 =>
              /\ instance_.library_handle_ = NULL
              /\ instance_.api_pointers_ = ZeroTable
              /\ ~instance_.initialized_
              /\ g_avs_api = NULL
        /\ last.pre.ref_count_ > 1 =>
              /\ instance_ = last.pre.instance_
              /\ g_avs_api = last.pre.g_avs_api
              /\ last.call.closes = 0

\* the callback ran on a loaded library that another caller still holds
C25_Witness ==
    /\ last.call.op = "cleanup_callback"
    /\ last.pre.ref_count_ = 2
    /\ last.call.env = 2
    /\ instance_.library_handle_ # NULL
    /\ instance_.initialized_
    /\ g_avs_api = TABLE

\* the last call ran a version check (in the load sequence or as the
\* re-check on a READY loader) on a host without the property getter
FallbackCheck ==
    /\ GetApiReturned
    /\ host.present
    /\ {"avs_check_version", "avs_at_exit"} \subseteq host.exports
    /\ "avs_get_env_property" \notin host.exports
    /\ last.pre.ref_count_ = 0 \/ WasREADY

\* C26: without the property getter the version check is one call of
\* avs_check_version with the required major and no call of the getter,
\* and the call fails with the version error iff avs_check_version
\* returned nonzero, whatever the required bugfix.
C26_FallbackNegotiation ==
    FallbackCheck =>
        /\ last.call.asked = <<<<"avs_check_version", last.call.major>>>>
        /\ avs_check_version(host, last.call.env, last.call.major) # 0
              <=> /\ last.call.ret = NULL
                  /\ instance_.last_error_message_ =
                        Msg("Avisynth C API Error: Plugin requires interface >= %d.%d, but the installed AviSynth+ version is too old.",
                            "", <<last.call.major, last.call.bugfix>>)
        /\ (/\ avs_check_version(host, last.call.env, last.call.major) = 0
            /\ \A i \in 1..Len(last.call.names) :
                   last.call.names[i] \in KnownNames \cap host.exports)
              => last.call.ret = TABLE

\* required 10.1 is accepted by a getter-less host at 10.0
C26_Witness ==
    /\ FallbackCheck
    /\ last.pre.ref_count_ = 0
    /\ host.major = 10 /\ host.bugfix = 0
    /\ last.call.major = 10 /\ last.call.bugfix = 1
    /\ last.call.ret = TABLE

\* versions to compare the two checks on, around the hosts' own
CheckMajors == 8..12
CheckBugfixes == 0..2

\* C27: on a READY loader the re-check of get_api and the check of the load
\* sequence give the same verdict, the same detected version, make the
\* same host calls and produce the same error message for every required
\* version; and the re-check a call actually ran failed or passed, with
\* that message, as the load sequence's check would have.
C27_RecheckEqualsLoadCheck ==
    /\ READY =>
          \A env \in Envs, major \in CheckMajors, bugfix \in CheckBugfixes :
              LET a == load_version_check(World, host, env, major, bugfix)
                  b == loaded_version_check(World, host, env, major, bugfix)
              IN  /\ a = b
                  /\ load_version_error(World, major, bugfix, a)
                       = loaded_version_error(World, major, bugfix, b)
    /\ (GetApiReturned /\ WasREADY) =>
          LET a == load_version_check(last.pre, host, last.call.env,
                                      last.call.major, last.call.bugfix)
          IN  /\ a.ok <=> last.call.ret = TABLE
              /\ ~a.ok => instance_.last_error_message_
                             = load_version_error(last.pre, last.call.major,
                                                  last.call.bugfix, a)
              /\ last.call.asked = a.asked

\* a re-check failed on a host with the property getter
C27_Witness ==
    /\ ReturnedNull
    /\ WasREADY
    /\ "avs_get_env_property" \in host.exports
    /\ last.call.closes = 1
    /\ Len(instance_.last_error_message_.nums) = 4

\* index of the first required name the host cannot provide (0: none)
FirstBadName(h, names) ==
    LET bad == {i \in 1..Len(names) : names[i] \notin KnownNames \cap h.exports}
    IN  IF bad = {} THEN 0 ELSE CHOOSE i \in bad : \A j \in bad : i <= j

\* the first step of the load sequence that fails on this host
FirstFailingStep(h, major, bugfix, names) ==
    IF ~h.present THEN "open"
    ELSE IF ~({"avs_check_version", "avs_at_exit"} \subseteq h.exports)
         THEN "bootstrap"
    ELSE IF ~VersionMet(h, major, bugfix) THEN "version"
    ELSE IF FirstBadName(h, names) # 0 THEN "names"
    ELSE "none"

\* the step a recorded message comes from
ErrorStep(m) ==
    IF m = EmptyMsg THEN "none"
    ELSE IF m.text = "Failed to load avisynth library (%s). Is Avisynth+ installed correctly?"
         THEN "open"
    ELSE IF m.text = "Failed to load required function: "
            /\ m.name \in {"avs_check_version", "avs_at_exit"}
         THEN "bootstrap"
    ELSE IF Len(m.nums) >= 2 THEN "version"
    ELSE "names"

\* the last call ran the load sequence
LoadRan == GetApiReturned /\ last.pre.ref_count_ = 0

\* C28: the load sequence fails at the first step, in the order open,
\* bootstrap symbols, version, required names in list order, that cannot
\* succeed on this host, records that step's error and goes no further
\* (no later symbol is resolved, no callback registered, initialized
\* false); when no step fails the callback is registered and initialized
\* is true.
C28_LoadOrder ==
    LoadRan =>
        LET step == FirstFailingStep(host, last.call.major, last.call.bugfix,
                                     last.call.names)
            i == FirstBadName(host, last.call.names)
            n == last.call.names
        IN  /\ ErrorStep(instance_.last_error_message_) = step
            /\ last.call.opens = 1
            /\ step = "open" => last.call.resolves = 0
            /\ step \in {"bootstrap", "version"} => last.call.resolves = 3
            /\ step = "version" => Len(last.call.asked) >= 1
            /\ step \in {"open", "bootstrap"} => last.call.asked = <<>>
            /\ step = "names" =>
                  /\ instance_.last_error_message_ =
                        IF n[i] \in KnownNames
                        THEN Msg("Failed to load required function: ", n[i], <<>>)
                        ELSE UnknownNameError(n[i])
                  /\ last.call.resolves =
                        3 + (IF n[i] \in KnownNames THEN i ELSE i - 1)
            /\ step # "none" =>
                  /\ last.call.ret = NULL
                  /\ ~instance_.initialized_
                  /\ at_exit = last.pre.at_exit
            /\ step = "none" =>
                  /\ last.call.ret = TABLE
                  /\ instance_.initialized_
                  /\ at_exit[last.call.env] = last.pre.at_exit[last.call.env] + 1

\* the host is too old and the list has an unknown name: the version error
C28_Witness ==
    /\ LoadRan
    /\ ~VersionMet(host, last.call.major, last.call.bugfix)
    /\ FirstUnknown(last.call.names) # 0
    /\ ErrorStep(instance_.last_error_message_) = "version"
    /\ last.call.resolves = 3

BootstrapNames == {"avs_check_version", "avs_at_exit"}

\* the load sequence of the last call ran on an installed host that lacks a
\* bootstrap symbol or a recognized name of the required list
LoadLacksRequired ==
    /\ LoadRan
    /\ host.present
    /\ \/ ~(BootstrapNames \subseteq host.exports)
       \/ \E i \in 1..Len(last.call.names) :
              last.call.names[i] \in KnownNames \ host.exports

MissingFunctionError ==
    /\ instance_.last_error_message_.text = "Failed to load required function: "
    /\ instance_.last_error_message_.name \notin host.exports

\* the sequence gets as far as resolving the missing symbol
ReachesMissing ==
    \/ ~(BootstrapNames \subseteq host.exports)
    \/ /\ VersionMet(host, last.call.major, last.call.bugfix)
       /\ FirstBadName(host, last.call.names) # 0
       /\ last.call.names[FirstBadName(host, last.call.names)] \in KnownNames

\* a host lacking the property getter and nothing else the call needs
LacksOnlyGetter ==
    /\ LoadRan
    /\ "avs_get_env_property" \notin host.exports
    /\ Satisfiable(host, last.call.major, last.call.bugfix, last.call.names)

\* C29 as stated: a load on a host lacking a bootstrap symbol or a
\* recognized required name fails with a message naming a missing required
\* function and closes the library; lacking only the getter does not fail.
C29_MissingRequiredError ==
    /\ LoadLacksRequired =>
          /\ last.call.ret = NULL
          /\ MissingFunctionError
          /\ instance_.library_handle_ = NULL
    /\ LacksOnlyGetter => last.call.ret = TABLE

\* C29 amended: such a load fails and closes the library it opened; the
\* message names a missing required function exactly when the sequence
\* reaches that symbol (a bootstrap symbol, or the first name the host
\* cannot provide when the version check passed and that name is a
\* recognized one); lacking only the getter does not fail the load.
C29_MissingRequiredFailsLoad ==
    /\ LoadLacksRequired =>
          /\ last.call.ret = NULL
          /\ instance_.library_handle_ = NULL
          /\ last.call.opens = 1 /\ last.call.closes = 1
          /\ instance_.last_error_message_ # EmptyMsg
          /\ ReachesMissing <=> MissingFunctionError
    /\ LacksOnlyGetter =>
          /\ last.call.ret = TABLE
          /\ instance_.api_pointers_["avs_get_env_property"] = NULL
          /\ instance_.last_error_message_ = EmptyMsg

\* a recognized required name the host does not export stopped the load
C29_Witness ==
    /\ LoadLacksRequired
    /\ BootstrapNames \subseteq host.exports
    /\ MissingFunctionError
    /\ instance_.last_error_message_.name = "avs_release_clip"
    /\ last.call.closes = 1

\* C30: after a load sequence that succeeded every known name's slot is
\* non-null iff the host exports the name, and no error is recorded; a
\* host that has the bootstrap symbols, the required names and the version
\* is never refused for a symbol it lacks.
C30_OptionalSymbols ==
    /\ (LoadRan /\ last.call.ret # NULL) =>
          /\ \A n \in KnownNames :
                instance_.api_pointers_[n] # NULL <=> n \in host.exports
          /\ \A n \in KnownNames \cap host.exports :
                instance_.api_pointers_[n] = n
          /\ instance_.last_error_message_ = EmptyMsg
    /\ (/\ LoadRan
        /\ Satisfiable(host, last.call.major, last.call.bugfix,
                        last.call.names))
          => /\ last.call.ret = TABLE
             /\ instance_.last_error_message_ = EmptyMsg

\* a load succeeded on a host lacking a symbol the caller did not require,
\* and resolved one it did not require either
C30_Witness ==
    /\ LoadRan
    /\ last.call.ret = TABLE
    /\ last.call.names = <<>>
    /\ "avs_release_clip" \notin host.exports
    /\ instance_.api_pointers_["avs_release_clip"] = NULL
    /\ instance_.api_pointers_["avs_get_frame"] = "avs_get_frame"

\* teardown callbacks registered with the host and not yet invoked
RECURSIVE SumAtExit(_)
SumAtExit(es) ==
    IF es = {} THEN 0
    ELSE LET e == CHOOSE x \in es : TRUE
         IN  at_exit[e] + SumAtExit(es \ {e})

Pending == SumAtExit(Envs)

\* C31: a load sequence that succeeds registers the teardown callback
\* exactly once, on the env of the loading call and after the symbols are
\* resolved; a load sequence that fails and a get_api call on a count above
\* zero register nothing; the callbacks registered and not yet invoked
\* never outnumber the reference count.
C31_RegisteredOncePerLoad ==
    /\ (LoadRan /\ last.call.ret # NULL) =>
          /\ at_exit = [last.pre.at_exit EXCEPT ![last.call.env] = @ + 1]
          /\ last.call.resolves >= 3 + Len(last.call.names)
    /\ (LoadRan /\ last.call.ret = NULL) => at_exit = last.pre.at_exit
    /\ (GetApiReturned /\ last.pre.ref_count_ > 0)
          => at_exit = last.pre.at_exit
    /\ Pending <= ref_count_

\* a load on env 2 registered its callback there, after an earlier call
\* had failed and registered none
C31_Witness ==
    /\ LoadRan
    /\ failed
    /\ last.call.ret = TABLE
    /\ last.call.env = 2
    /\ at_exit[1] = 0 /\ at_exit[2] = 1

\* the last call observed a count above zero and a loader not initialized
BackedOff ==
    /\ GetApiReturned
    /\ last.pre.ref_count_ > 0
    /\ ~last.pre.instance_.initialized_

\* C32: a get_api call that observes a nonzero count and finds the loader
\* not initialized returns null, leaves the count where it was, leaves the
\* error message and the rest of the instance as they were, opens and
\* resolves nothing, and closes the library only if it took the count to
\* zero.
C32_BackoffReleasesReference ==
    BackedOff =>
        /\ last.call.ret = NULL
        /\ ref_count_ = last.pre.ref_count_
        /\ instance_.last_error_message_
             = last.pre.instance_.last_error_message_
        /\ instance_ = last.pre.instance_
        /\ g_avs_api = last.pre.g_avs_api
        /\ at_exit = last.pre.at_exit
        /\ last.call.opens = 0 /\ last.call.resolves = 0
        /\ last.call.asked = <<>>
        /\ last.call.closes > 0 => ref_count_ = 0

\* a call arrived after a version mismatch had left the count at 2
C32_Witness ==
    /\ BackedOff
    /\ last.pre.ref_count_ = 2
    /\ ref_count_ = 2
    /\ instance_.last_error_message_ # EmptyMsg
    /\ last.call.major = 10

\* at most two get_api calls have been started, from the never-loaded
\* state, each asking for what the host has, and no teardown has run
TwoFirstCallers == calls <= 2 /\ allSat /\ teardowns = 0

\* C33: of two get_api calls started on an UNLOADED loader whose host
\* serves both, the one that observed a count of 0 does not fail; once
\* both have returned at least one has the table, the count is the number
\* of calls that returned the table, and the loader is READY.
C33_TwoConcurrentFirstCallers ==
    TwoFirstCallers =>
        /\ \A t \in Threads :
              (thr[t].pc # "idle" /\ thr[t].first)
                  => (InLoad(t) \/ thr[t].pc = "publish")
        /\ ReturnedNull => successes + 1 <= calls
        /\ (calls = 2 /\ AllIdle) =>
              /\ successes >= 1
              /\ ref_count_ = successes
              /\ READY
              /\ g_avs_api = TABLE

\* the second caller arrived while the first was loading and failed
\* spuriously
C33_Witness ==
    /\ TwoFirstCallers
    /\ calls = 2 /\ AllIdle
    /\ successes = 1 /\ failed
    /\ ref_count_ = 1
    /\ READY

\* the process state before any call, with the callbacks the host holds now
FreshWorld ==
    [instance_ |-> NewInstance, ref_count_ |-> 0, g_avs_api |-> NULL,
     at_exit |-> last.pre.at_exit,
     opens |-> 0, closes |-> 0, resolves |-> 0, asked |-> <<>>]

\* C34: after teardown callbacks have run, a get_api call that observes a
\* count of 0 runs the whole load sequence again and ends exactly as the
\* same call would on a never-loaded process: same result, same instance,
\* same count, same opens and symbol resolutions, a new callback
\* registered iff it succeeds; and it succeeds whenever the host serves it.
C34_ReloadAfterRelease ==
    (LoadRan /\ teardowns >= 1) =>
        LET f == get_api(FreshWorld, host, last.call.env, last.call.major,
                         last.call.bugfix, last.call.names)
        IN  /\ last.call.ret = f.ret
            /\ instance_ = f.w.instance_
            /\ g_avs_api = f.w.g_avs_api
            /\ ref_count_ = f.w.ref_count_
            /\ at_exit = f.w.at_exit
            /\ last.call.opens = 1
            /\ last.call.opens = f.w.opens
            /\ last.call.closes = f.w.closes
            /\ last.call.resolves = f.w.resolves
            /\ last.call.asked = f.w.asked
            /\ Satisfiable(host, last.call.major, last.call.bugfix,
                           last.call.names)
                  => /\ last.call.ret = TABLE
                     /\ READY
                     /\ ref_count_ = 1
                     /\ at_exit[last.call.env]
                          = last.pre.at_exit[last.call.env] + 1

\* the library was loaded, fully released and loaded again
C34_Witness ==
    /\ LoadRan
    /\ teardowns >= 1
    /\ WasUNLOADED
    /\ last.call.ret = TABLE
    /\ last.call.opens = 1
    /\ conc.loads = 2
    /\ Pending = 1

\* thread t is at a call through a function-table slot that is null: the
\* version lambda of the re-validation with neither avs_get_env_property nor
\* avs_check_version set, or load_functions at avs_at_exit with that slot null
CallsThroughNull(t) ==
    \/ /\ thr[t].pc = "check_version"
       /\ instance_.api_pointers_["avs_get_env_property"] = NULL
       /\ instance_.api_pointers_["avs_check_version"] = NULL
    \/ /\ thr[t].pc = "load_register"
       /\ instance_.api_pointers_["avs_at_exit"] = NULL

\* C35: get_api never calls through a null function-table slot: no thread
\* is at an invocation of avs_get_env_property, avs_check_version or
\* avs_at_exit while the slot it is about to call through is null.
C35_NoCallThroughNull == \A t \in Threads : ~CallsThroughNull(t)

\* C36: library opens and closes are balanced: the successful
\* avs_open_library calls minus the avs_close_library calls is 0 or 1, and
\* it is 1 exactly when library_handle_ is non-null (no handle overwritten
\* or reset without its close, none closed twice).
C36_OpensBalanceCloses ==
    /\ conc.held \in {0, 1}
    /\ conc.held = 1 <=> instance_.library_handle_ # NULL

====
